---- MODULE Spec2Model ----
(***************************************************************************)
(* Energy-based silence segmentation of preprocess_raw_audio.ipynb:        *)
(* strip_silence and compute_total_pause_time, run one after the other on  *)
(* the same signal and parameters.                                         *)
(*                                                                         *)
(* Numbers.  Samples and the threshold are integers.  librosa.feature.rms  *)
(* returns sqrt(mean(frame^2)); a frame energy is kept here as the sum of  *)
(* squares of the frame, so that for a threshold T >= 0                    *)
(*      rms > T   <=>   sumsq > frame_length * T^2                         *)
(*      rms < T   <=>   sumsq < frame_length * T^2                         *)
(* are exact.  Times and ratios are exact rationals [num, den].            *)
(***************************************************************************)
EXTENDS Integers, Sequences, FiniteSets, TLC

\* ---------------------------------------------------------------- bounds
MaxLen == 4
MaxAmp == 2
MaxThr == 1
MaxHop == 2
MaxFrame == 3
MaxSr == 2
MaxTick == 4
MaxTracks == 3
TicksPerSecond == 2

Samples == (-1)..MaxAmp
Signals == UNION {[1..n -> Samples] : n \in 0..MaxLen}

VARIABLES y, sr, silence_threshold, frame_length, hop_length, output_path,
          pc, i,
          non_silent_frames, start_idx, non_silent_audio, spans,
          strip_status, stripped_audio, files_written,
          silence, start, pause_time, pause_status, ratio

\* diarization cell (one file of the loop)
VARIABLES d_pc, diarization, d_sr, audio, speakers, s_i, max_duration,
          main_speaker, label_durations, pause_duration, speaker_duration,
          pause_ratio, keep_timeline, k_i, speaker_audio, removed_ratio,
          duration_data, df_duration, exported

\* feature extraction cells (training loops)
VARIABLES f_pc, f_i, train_gemaps, train_compare, printed, f_raised

\* the os.walk loops over the input folder: the files walked, the position
\* in them, the pass over the folder, the export folder (path -> number of
\* times written) and the number of files loaded
VARIABLES w_pc, w_files, w_i, w_run, w_fs, w_loads

segVars == <<y, sr, silence_threshold, frame_length, hop_length, output_path,
             pc, i,
             non_silent_frames, start_idx, non_silent_audio, spans,
             strip_status, stripped_audio, files_written,
             silence, start, pause_time, pause_status, ratio>>

diarVars == <<d_pc, diarization, d_sr, audio, speakers, s_i, max_duration,
              main_speaker, label_durations, pause_duration,
              speaker_duration, pause_ratio, keep_timeline, k_i,
              speaker_audio, removed_ratio, duration_data, df_duration,
              exported>>

featVars == <<f_pc, f_i, train_gemaps, train_compare, printed, f_raised>>

walkVars == <<w_pc, w_files, w_i, w_run, w_fs, w_loads>>

vars == <<segVars, diarVars, featVars, walkVars>>

\* what the two segmentation functions never touch
segOthers == <<diarVars, featVars, walkVars, output_path, files_written>>

inputs == <<y, sr, silence_threshold, frame_length, hop_length>>
stripVars == <<non_silent_frames, start_idx, non_silent_audio, spans,
               strip_status, stripped_audio>>
pauseVars == <<silence, start, pause_time, pause_status, ratio>>

\* ------------------------------------------------------------- rationals
Rat(n, d) == [num |-> n, den |-> d]
RatAdd(a, b) == IF a.den = b.den THEN Rat(a.num + b.num, a.den)
                ELSE Rat(a.num * b.den + b.num * a.den, a.den * b.den)
RatSub(a, b) == IF a.den = b.den THEN Rat(a.num - b.num, a.den)
                ELSE Rat(a.num * b.den - b.num * a.den, a.den * b.den)
RatDiv(a, b) == Rat(a.num * b.den, a.den * b.num)
RatEq(a, b) == a.num * b.den = b.num * a.den
RatLeq(a, b) == a.num * b.den <= b.num * a.den

\* Python None for start_idx (a sample index) and for start (a time).
None == -1
NoneTime == Rat(0, 0)

\* ------------------------------------------------------------ librosa
Zeros(n) == [k \in 1..n |-> 0]

\* variant of Padded: frames not centred (center=False), no padding
PaddedNone(sig, fl) == sig

\* np.pad(y, frame_length // 2, mode="constant") of rms(center=True)
Padded(sig, fl) == Zeros(fl \div 2) \o sig \o Zeros(fl \div 2)

\* librosa.util.frame raises ParameterError when the padded signal is
\* shorter than one frame
RmsFails(sig, fl) == Len(Padded(sig, fl)) < fl

NumFrames(sig, fl, hop) == 1 + (Len(Padded(sig, fl)) - fl) \div hop

\* sum of the squares of s, summed by halves (a frame of the default length
\* has 2048 samples)
RECURSIVE SumSq(_)
SumSq(s) ==
    IF Len(s) = 0 THEN 0
    ELSE IF Len(s) = 1 THEN s[1] * s[1]
    ELSE LET h == Len(s) \div 2
         IN SumSq(SubSeq(s, 1, h)) + SumSq(SubSeq(s, h + 1, Len(s)))

\* energy of frame k (0-based), as fl * rms^2
FrameEnergy(sig, fl, hop, k) ==
    SumSq(SubSeq(Padded(sig, fl), k * hop + 1, k * hop + fl))

rms(sig, fl, hop) ==
    [k \in 1..NumFrames(sig, fl, hop) |-> FrameEnergy(sig, fl, hop, k - 1)]

\* variants of frames_to_samples: the boundary of the following frame, and
\* the frame length taken for the hop length
frames_to_samples_next(k, hop) == (k + 1) * hop
frames_to_samples_framelen(k, hop) == k * frame_length

\* variant of frames_to_samples: the centre of the hop
frames_to_samples_centre(k, hop) == k * hop + hop \div 2

frames_to_samples(k, hop) == k * hop

frames_to_time(k, rate, hop) == Rat(frames_to_samples(k, hop), rate)

get_duration(sig, rate) == Rat(Len(sig), rate)

\* numpy slice sig[a:b] for 0 <= a, 0 <= b
Min(a, b) == IF a <= b THEN a ELSE b
Slice(sig, a, b) == SubSeq(sig, a + 1, Min(b, Len(sig)))

RECURSIVE Flatten(_)
Flatten(parts) == IF parts = <<>> THEN <<>>
                  ELSE Head(parts) \o Flatten(Tail(parts))

\* variant of ConcatenateFails: an empty list concatenates to an empty array
ConcatenateNeverFails(parts) == FALSE

\* np.concatenate raises ValueError on an empty list of arrays
ConcatenateFails(parts) == parts = <<>>

\* energy > silence_threshold
EnergyAbove(e, thr, fl) == e > fl * thr * thr
\* variant of EnergyBelow: the comparison turned around
EnergyBelowInverted(e, thr, fl) == e > fl * thr * thr

\* energy < silence_threshold
EnergyBelow(e, thr, fl) == e < fl * thr * thr

\* ----------------------------------------------- the cells not running
NoLabel == -1

DiarIdle ==
    /\ d_pc = "idle"
    /\ diarization = {}
    /\ d_sr = 1
    /\ audio = <<>>
    /\ speakers = <<>>
    /\ s_i = 0
    /\ max_duration = Rat(0, 1)
    /\ main_speaker = NoLabel
    /\ label_durations = <<>>
    /\ pause_duration = Rat(0, 1)
    /\ speaker_duration = Rat(0, 1)
    /\ pause_ratio = Rat(0, 1)
    /\ keep_timeline = <<>>
    /\ k_i = 0
    /\ speaker_audio = <<>>
    /\ removed_ratio = Rat(0, 1)
    /\ duration_data = <<>>
    /\ df_duration = <<>>
    /\ exported = <<>>

FeatIdle ==
    /\ f_pc = "idle"
    /\ f_i = 0
    /\ train_gemaps = <<>>
    /\ train_compare = <<>>
    /\ printed = <<>>
    /\ f_raised = FALSE

WalkIdle ==
    /\ w_pc = "idle"
    /\ w_files = <<>>
    /\ w_i = 0
    /\ w_run = 0
    /\ w_fs = <<>>
    /\ w_loads = 0

SegIdle ==
    /\ y = <<>>
    /\ sr = 1
    /\ silence_threshold = 0
    /\ frame_length = 1
    /\ hop_length = 1
    /\ output_path = "None"
    /\ files_written = {}
    /\ pc = "idle"
    /\ i = 0
    /\ non_silent_frames = <<>>
    /\ start_idx = None
    /\ non_silent_audio = <<>>
    /\ spans = <<>>
    /\ strip_status = "pending"
    /\ stripped_audio = <<>>
    /\ silence = <<>>
    /\ start = NoneTime
    /\ pause_time = [kind |-> "float", val |-> Rat(0, 1)]
    /\ pause_status = "pending"
    /\ ratio = [special |-> "none", val |-> Rat(0, 1)]

\* ------------------------------------------------------------------ Init
Init ==
    /\ y \in Signals
    /\ sr \in 1..MaxSr
    /\ silence_threshold \in 0..MaxThr
    /\ frame_length \in 1..MaxFrame
    /\ hop_length \in 1..MaxHop
    /\ output_path = "None"
    /\ files_written = {}
    /\ DiarIdle
    /\ FeatIdle
    /\ WalkIdle
    /\ pc = "strip_silence"
    /\ i = 0
    /\ non_silent_frames = <<>>
    /\ start_idx = None
    /\ non_silent_audio = <<>>
    /\ spans = <<>>
    /\ strip_status = "pending"
    /\ stripped_audio = <<>>
    /\ silence = <<>>
    /\ start = NoneTime
    /\ pause_time = [kind |-> "float", val |-> Rat(0, 1)]
    /\ pause_status = "pending"
    /\ ratio = [special |-> "none", val |-> Rat(0, 1)]

\* --------------------------------------------------------- strip_silence
StripRmsFail ==
    /\ pc = "strip_silence"
    /\ RmsFails(y, frame_length)
    /\ strip_status' = "ParameterError"
    /\ pc' = "compute_total_pause_time"
    /\ UNCHANGED <<segOthers, inputs, i, non_silent_frames, start_idx, non_silent_audio,
                   spans, stripped_audio, pauseVars>>

StripRms ==
    /\ pc = "strip_silence"
    /\ ~RmsFails(y, frame_length)
    /\ LET energy == rms(y, frame_length, hop_length)
       IN non_silent_frames' =
            [k \in 1..Len(energy) |->
                EnergyAbove(energy[k], silence_threshold, frame_length)]
    /\ non_silent_audio' = <<>>
    /\ start_idx' = None
    /\ i' = 0
    /\ pc' = "strip_loop"
    /\ UNCHANGED <<segOthers, inputs, spans, strip_status, stripped_audio, pauseVars>>

StripRegionStart ==
    /\ pc = "strip_loop"
    /\ i < Len(non_silent_frames)
    /\ non_silent_frames[i + 1] /\ start_idx = None
    /\ start_idx' = frames_to_samples(i, hop_length)
    /\ i' = i + 1
    /\ UNCHANGED <<segOthers, inputs, pc, non_silent_frames, non_silent_audio, spans,
                   strip_status, stripped_audio, pauseVars>>

StripRegionEnd ==
    /\ pc = "strip_loop"
    /\ i < Len(non_silent_frames)
    /\ ~(non_silent_frames[i + 1] /\ start_idx = None)
    /\ ~non_silent_frames[i + 1] /\ start_idx # None
    /\ LET end_idx == frames_to_samples(i, hop_length)
       IN /\ non_silent_audio' =
                Append(non_silent_audio, Slice(y, start_idx, end_idx))
          /\ spans' = Append(spans, <<start_idx, end_idx>>)
    /\ start_idx' = None
    /\ i' = i + 1
    /\ UNCHANGED <<segOthers, inputs, pc, non_silent_frames, strip_status,
                   stripped_audio, pauseVars>>

StripSameRegion ==
    /\ pc = "strip_loop"
    /\ i < Len(non_silent_frames)
    /\ ~(non_silent_frames[i + 1] /\ start_idx = None)
    /\ ~(~non_silent_frames[i + 1] /\ start_idx # None)
    /\ i' = i + 1
    /\ UNCHANGED <<segOthers, inputs, pc, stripVars, pauseVars>>

\* variants of TailSlice: the last sample left out, and the slice stopped at
\* the start of the last analysed frame
TailSliceShort(sig, a) == Slice(sig, a, Len(sig) - 1)
TailSliceToLastFrame(sig, a) ==
    Slice(sig, a, frames_to_samples(Len(non_silent_frames) - 1, hop_length))

\* y[start_idx:]
TailSlice(sig, a) == Slice(sig, a, Len(sig))

StripTail ==
    /\ pc = "strip_loop"
    /\ i = Len(non_silent_frames)
    /\ IF start_idx # None
       THEN /\ non_silent_audio' =
                  Append(non_silent_audio, TailSlice(y, start_idx))
            /\ spans' = Append(spans,
                  <<start_idx, start_idx + Len(TailSlice(y, start_idx))>>)
       ELSE UNCHANGED <<non_silent_audio, spans>>
    /\ pc' = "strip_concat"
    /\ UNCHANGED <<segOthers, inputs, i, non_silent_frames, start_idx, strip_status,
                   stripped_audio, pauseVars>>

StripConcatenateFail ==
    /\ pc = "strip_concat"
    /\ ConcatenateFails(non_silent_audio)
    /\ strip_status' = "ValueError"
    /\ pc' = "compute_total_pause_time"
    /\ UNCHANGED <<segOthers, inputs, i, non_silent_frames, start_idx, non_silent_audio,
                   spans, stripped_audio, pauseVars>>

\* variant of StripReturn: the result saved when output_path is given, as
\* the docstring describes
StripReturnSaving ==
    /\ pc = "strip_concat"
    /\ ~ConcatenateFails(non_silent_audio)
    /\ stripped_audio' = Flatten(non_silent_audio)
    /\ strip_status' = "returned"
    /\ files_written' = IF output_path = "None" THEN files_written
                        ELSE files_written \cup {output_path}
    /\ pc' = "compute_total_pause_time"
    /\ UNCHANGED <<diarVars, featVars, walkVars, output_path, inputs, i,
                   non_silent_frames, start_idx, non_silent_audio,
                   spans, pauseVars>>

StripReturn ==
    /\ pc = "strip_concat"
    /\ ~ConcatenateFails(non_silent_audio)
    /\ stripped_audio' = Flatten(non_silent_audio)
    /\ strip_status' = "returned"
    /\ pc' = "compute_total_pause_time"
    /\ UNCHANGED <<segOthers, inputs, i, non_silent_frames, start_idx, non_silent_audio,
                   spans, pauseVars>>

\* ---------------------------------------------- compute_total_pause_time
PauseRmsFail ==
    /\ pc = "compute_total_pause_time"
    /\ RmsFails(y, frame_length)
    /\ pause_status' = "ParameterError"
    /\ pc' = "done"
    /\ UNCHANGED <<segOthers, inputs, i, stripVars, silence, start, pause_time, ratio>>

PauseRms ==
    /\ pc = "compute_total_pause_time"
    /\ ~RmsFails(y, frame_length)
    /\ LET energy == rms(y, frame_length, hop_length)
       IN silence' =
            [k \in 1..Len(energy) |->
                EnergyBelow(energy[k], silence_threshold, frame_length)]
    /\ pause_time' = [kind |-> "float", val |-> Rat(0, 1)]
    /\ start' = NoneTime
    /\ i' = 0
    /\ pc' = "pause_loop"
    /\ UNCHANGED <<segOthers, inputs, stripVars, pause_status, ratio>>

PauseRegionStart ==
    /\ pc = "pause_loop"
    /\ i < Len(silence)
    /\ silence[i + 1] /\ start = NoneTime
    /\ start' = frames_to_time(i, sr, hop_length)
    /\ i' = i + 1
    /\ UNCHANGED <<segOthers, inputs, pc, stripVars, silence, pause_time, pause_status,
                   ratio>>

PauseRegionEnd ==
    /\ pc = "pause_loop"
    /\ i < Len(silence)
    /\ ~(silence[i + 1] /\ start = NoneTime)
    /\ ~silence[i + 1] /\ start # NoneTime
    /\ LET end == frames_to_time(i, sr, hop_length)
       IN pause_time' = [kind |-> "float64",
                         val |-> RatAdd(pause_time.val, RatSub(end, start))]
    /\ start' = NoneTime
    /\ i' = i + 1
    /\ UNCHANGED <<segOthers, inputs, pc, stripVars, silence, pause_status, ratio>>

PauseSameRegion ==
    /\ pc = "pause_loop"
    /\ i < Len(silence)
    /\ ~(silence[i + 1] /\ start = NoneTime)
    /\ ~(~silence[i + 1] /\ start # NoneTime)
    /\ i' = i + 1
    /\ UNCHANGED <<segOthers, inputs, pc, stripVars, pauseVars>>

\* variant of LastTime: the time one frame after the last
LastTimeNext(n, rate, hop) == frames_to_time(n, rate, hop)

\* times[-1]
LastTime(n, rate, hop) == frames_to_time(n - 1, rate, hop)

PauseTail ==
    /\ pc = "pause_loop"
    /\ i = Len(silence)
    /\ IF start # NoneTime
       THEN pause_time' =
              [kind |-> "float64",
               val |-> RatAdd(pause_time.val,
                         RatSub(LastTime(Len(silence), sr, hop_length), start))]
       ELSE UNCHANGED pause_time
    /\ pc' = "pause_ratio"
    /\ UNCHANGED <<segOthers, inputs, i, stripVars, silence, start, pause_status, ratio>>

\* pause_time / total_signal_time.  A Python float divided by 0.0 raises
\* ZeroDivisionError; a numpy float64 divided by 0.0 warns and yields nan
\* (0/0) or inf.
DivRaises(p, total) == total.num = 0 /\ p.kind = "float"

Divide(p, total) ==
    IF total.num = 0
    THEN [special |-> IF p.val.num = 0 THEN "nan" ELSE "inf",
          val |-> Rat(0, 1)]
    ELSE [special |-> "finite", val |-> RatDiv(p.val, total)]

PauseRatioFail ==
    /\ pc = "pause_ratio"
    /\ DivRaises(pause_time, get_duration(y, sr))
    /\ pause_status' = "ZeroDivisionError"
    /\ pc' = "done"
    /\ UNCHANGED <<segOthers, inputs, i, stripVars, silence, start, pause_time, ratio>>

PauseReturn ==
    /\ pc = "pause_ratio"
    /\ ~DivRaises(pause_time, get_duration(y, sr))
    /\ ratio' = Divide(pause_time, get_duration(y, sr))
    /\ pause_status' = "returned"
    /\ pc' = "done"
    /\ UNCHANGED <<segOthers, inputs, i, stripVars, silence, start, pause_time>>

\* ------------------------------------------------------- pyannote.core
\* A segment is <<start, end>> in ticks (TicksPerSecond ticks per second),
\* start < end; a timeline is a set of segments; an annotation is a set of
\* tracks <<start, end, label>>.
MAX_SPEAKERS == 2

Segments == {seg \in (0..MaxTick) \X (0..MaxTick) : seg[1] < seg[2]}
Tracks == {<<seg[1], seg[2], l>> : seg \in Segments, l \in 0..(MAX_SPEAKERS - 1)}
Annotations == {a \in SUBSET Tracks : Cardinality(a) <= MaxTracks}

RECURSIVE SortedInts(_)
SortedInts(S) ==
    IF S = {} THEN <<>>
    ELSE LET m == CHOOSE x \in S : \A z \in S : x <= z
         IN <<m>> \o SortedInts(S \ {m})

\* Annotation.labels(): the labels, sorted
labels(ann) == SortedInts({t[3] : t \in ann})

\* Annotation.label_timeline(label)
label_timeline(ann, l) == {<<t[1], t[2]>> : t \in {u \in ann : u[3] = l}}

\* Annotation.get_timeline()
get_timeline(ann) == {<<t[1], t[2]>> : t \in ann}

SegBefore(a, b) == a[1] < b[1] \/ (a[1] = b[1] /\ a[2] <= b[2])

\* iteration order of a timeline: by start, then by end
RECURSIVE SortedSegments(_)
SortedSegments(T) ==
    IF T = {} THEN <<>>
    ELSE LET m == CHOOSE a \in T : \A b \in T : SegBefore(a, b)
         IN <<m>> \o SortedSegments(T \ {m})

Max(a, b) == IF a >= b THEN a ELSE b

\* Timeline.support(): overlapping or touching segments merged
RECURSIVE MergeInto(_, _)
MergeInto(acc, rest) ==
    IF rest = <<>> THEN acc
    ELSE LET seg == Head(rest)
             last == acc[Len(acc)]
         IN IF acc # <<>> /\ seg[1] <= last[2]
            THEN MergeInto([acc EXCEPT ![Len(acc)] =
                                <<last[1], Max(last[2], seg[2])>>],
                           Tail(rest))
            ELSE MergeInto(Append(acc, seg), Tail(rest))

support(T) == MergeInto(<<>>, SortedSegments(T))

RECURSIVE SumLengths(_)
SumLengths(segs) ==
    IF segs = <<>> THEN 0
    ELSE (Head(segs)[2] - Head(segs)[1]) + SumLengths(Tail(segs))

\* variant of duration: the segments added up without merging them
duration_unmerged(T) == Rat(SumLengths(SortedSegments(T)), TicksPerSecond)

\* Timeline.duration(): the summed duration of the support, in seconds
duration(T) == Rat(SumLengths(support(T)), TicksPerSecond)

\* Annotation.label_duration(label)
label_duration(ann, l) == duration(label_timeline(ann, l))

\* Timeline.gaps(): the holes of the support inside the timeline's extent
gaps(T) ==
    LET sup == support(T)
    IN {<<sup[k][2], sup[k + 1][1]>> : k \in 1..(Len(sup) - 1)}

\* Timeline.union(other)
union(T, U) == T \cup U

\* int(segment.start * sr)
SampleOf(t, rate) == (t * rate) \div TicksPerSecond

\* variant of IsLonger: ties replace the current main speaker
IsLongerOrEqual(d, m) == RatLeq(m, d)
\* variant of IsLonger: the comparison turned around
IsShorter(d, m) == ~RatLeq(m, d)

\* speaker_duration[speaker] > max_duration
IsLonger(d, m) == ~RatLeq(d, m)

\* -------------------------------------------------- diarization loop body
DiarInit ==
    /\ d_pc = "labels"
    /\ diarization \in Annotations
    /\ d_sr \in 1..MaxSr
    /\ audio = [k \in 1..SampleOf(MaxTick, d_sr) |-> k - 1]
    /\ speakers = <<>>
    /\ s_i = 0
    /\ max_duration = Rat(0, 1)
    /\ main_speaker = NoLabel
    /\ label_durations = <<>>
    /\ pause_duration = Rat(0, 1)
    /\ speaker_duration = Rat(0, 1)
    /\ pause_ratio = Rat(0, 1)
    /\ keep_timeline = <<>>
    /\ k_i = 0
    /\ speaker_audio = <<>>
    /\ removed_ratio = Rat(0, 1)
    /\ duration_data = <<>>
    /\ df_duration = <<>>
    /\ exported = <<>>

diarOthers == <<segVars, featVars, walkVars, diarization, d_sr, audio>>

\* len(speakers) == 0: continue
DiarNoSpeakers ==
    /\ d_pc = "labels"
    /\ Len(labels(diarization)) = 0
    /\ speakers' = labels(diarization)
    /\ d_pc' = "done"
    /\ UNCHANGED <<diarOthers, s_i, max_duration, main_speaker,
                   label_durations, pause_duration, speaker_duration,
                   pause_ratio, keep_timeline, k_i, speaker_audio,
                   removed_ratio, duration_data, df_duration, exported>>

DiarSingleSpeaker ==
    /\ d_pc = "labels"
    /\ Len(labels(diarization)) = 1
    /\ speakers' = labels(diarization)
    /\ main_speaker' = labels(diarization)[1]
    /\ d_pc' = "pause"
    /\ UNCHANGED <<diarOthers, s_i, max_duration, label_durations,
                   pause_duration, speaker_duration, pause_ratio,
                   keep_timeline, k_i, speaker_audio, removed_ratio,
                   duration_data, df_duration, exported>>

DiarMultipleSpeakers ==
    /\ d_pc = "labels"
    /\ Len(labels(diarization)) > 1
    /\ speakers' = labels(diarization)
    /\ max_duration' = Rat(0, 1)
    /\ main_speaker' = labels(diarization)[1]
    /\ label_durations' = <<>>
    /\ s_i' = 0
    /\ d_pc' = "select"
    /\ UNCHANGED <<diarOthers, pause_duration, speaker_duration, pause_ratio,
                   keep_timeline, k_i, speaker_audio, removed_ratio,
                   duration_data, df_duration, exported>>

DiarSelectLonger ==
    /\ d_pc = "select"
    /\ s_i < Len(speakers)
    /\ LET speaker == speakers[s_i + 1]
           d == label_duration(diarization, speaker)
       IN /\ IsLonger(d, max_duration)
          /\ label_durations' = (speaker :> d) @@ label_durations
          /\ main_speaker' = speaker
          /\ max_duration' = d
    /\ s_i' = s_i + 1
    /\ UNCHANGED <<diarOthers, d_pc, speakers, pause_duration,
                   speaker_duration, pause_ratio, keep_timeline, k_i,
                   speaker_audio, removed_ratio, duration_data, df_duration,
                   exported>>

DiarSelectKeep ==
    /\ d_pc = "select"
    /\ s_i < Len(speakers)
    /\ LET speaker == speakers[s_i + 1]
           d == label_duration(diarization, speaker)
       IN /\ ~IsLonger(d, max_duration)
          /\ label_durations' = (speaker :> d) @@ label_durations
    /\ s_i' = s_i + 1
    /\ UNCHANGED <<diarOthers, d_pc, speakers, max_duration, main_speaker,
                   pause_duration, speaker_duration, pause_ratio,
                   keep_timeline, k_i, speaker_audio, removed_ratio,
                   duration_data, df_duration, exported>>

DiarSelectDone ==
    /\ d_pc = "select"
    /\ s_i = Len(speakers)
    /\ d_pc' = "pause"
    /\ UNCHANGED <<diarOthers, speakers, s_i, max_duration, main_speaker,
                   label_durations, pause_duration, speaker_duration,
                   pause_ratio, keep_timeline, k_i, speaker_audio,
                   removed_ratio, duration_data, df_duration, exported>>

\* compute pause ratio
DiarPauseRatio ==
    /\ d_pc = "pause"
    /\ LET speaker_timeline == label_timeline(diarization, main_speaker)
           gaps_timeline == gaps(get_timeline(diarization))
       IN /\ pause_duration' = duration(gaps_timeline)
          /\ speaker_duration' = duration(speaker_timeline)
          /\ pause_ratio' = RatDiv(duration(gaps_timeline),
                                   duration(speaker_timeline))
          /\ duration_data' =
                [c \in {"original_duration", "pause_duration",
                        "speaker_duration", "pause_ratio"} |->
                    CASE c = "original_duration" ->
                            duration(get_timeline(diarization))
                      [] c = "pause_duration" -> duration(gaps_timeline)
                      [] c = "speaker_duration" -> duration(speaker_timeline)
                      [] c = "pause_ratio" ->
                            RatDiv(duration(gaps_timeline),
                                   duration(speaker_timeline))]
    /\ d_pc' = IF Len(speakers) > 1 THEN "keep" ELSE "write_single"
    /\ UNCHANGED <<diarOthers, speakers, s_i, max_duration, main_speaker,
                   label_durations, keep_timeline, k_i, speaker_audio,
                   removed_ratio, df_duration, exported>>

\* not multiple_speakers: sf.write(export_path_file, audio, sr); continue
DiarWriteSingle ==
    /\ d_pc = "write_single"
    /\ exported' = <<audio>>
    /\ d_pc' = "done"
    /\ UNCHANGED <<diarOthers, speakers, s_i, max_duration, main_speaker,
                   label_durations, pause_duration, speaker_duration,
                   pause_ratio, keep_timeline, k_i, speaker_audio,
                   removed_ratio, duration_data, df_duration>>

\* keep_timeline = speaker_timeline.union(gaps_timeline)
DiarKeepTimeline ==
    /\ d_pc = "keep"
    /\ keep_timeline' =
         SortedSegments(union(label_timeline(diarization, main_speaker),
                              gaps(get_timeline(diarization))))
    /\ speaker_audio' = <<>>
    /\ k_i' = 0
    /\ d_pc' = "cut"
    /\ UNCHANGED <<diarOthers, speakers, s_i, max_duration, main_speaker,
                   label_durations, pause_duration, speaker_duration,
                   pause_ratio, removed_ratio, duration_data, df_duration,
                   exported>>

DiarCutSegment ==
    /\ d_pc = "cut"
    /\ k_i < Len(keep_timeline)
    /\ LET segment == keep_timeline[k_i + 1]
           start_sample == SampleOf(segment[1], d_sr)
           end_sample == SampleOf(segment[2], d_sr)
       IN speaker_audio' =
            Append(speaker_audio, Slice(audio, start_sample, end_sample))
    /\ k_i' = k_i + 1
    /\ UNCHANGED <<diarOthers, d_pc, speakers, s_i, max_duration,
                   main_speaker, label_durations, pause_duration,
                   speaker_duration, pause_ratio, keep_timeline,
                   removed_ratio, duration_data, df_duration, exported>>

\* np.concatenate, removed_ratio, df_duration.loc[uid], sf.write
DiarExport ==
    /\ d_pc = "cut"
    /\ k_i = Len(keep_timeline)
    /\ LET kept == Flatten(speaker_audio)
       IN /\ removed_ratio' = Rat(Len(audio) - Len(kept), Len(audio))
          /\ exported' = <<kept>>
    /\ duration_data' = ("removed_ratio" :> speaker_duration) @@ duration_data
    /\ df_duration' =
         ("uid" :> (("removed_ratio" :> speaker_duration) @@ duration_data))
    /\ d_pc' = "done"
    /\ UNCHANGED <<diarOthers, speakers, s_i, max_duration, main_speaker,
                   label_durations, pause_duration, speaker_duration,
                   pause_ratio, keep_timeline, k_i, speaker_audio>>

NextDiar ==
    \/ DiarNoSpeakers
    \/ DiarSingleSpeaker
    \/ DiarMultipleSpeakers
    \/ DiarSelectLonger
    \/ DiarSelectKeep
    \/ DiarSelectDone
    \/ DiarPauseRatio
    \/ DiarWriteSingle
    \/ DiarKeepTimeline
    \/ DiarCutSegment
    \/ DiarExport

InitDiar == SegIdle /\ FeatIdle /\ WalkIdle /\ DiarInit

SpecDiar == InitDiar /\ [][NextDiar]_vars

Next ==
    \/ StripRmsFail
    \/ StripRms
    \/ StripRegionStart
    \/ StripRegionEnd
    \/ StripSameRegion
    \/ StripTail
    \/ StripConcatenateFail
    \/ StripReturn
    \/ PauseRmsFail
    \/ PauseRms
    \/ PauseRegionStart
    \/ PauseRegionEnd
    \/ PauseSameRegion
    \/ PauseTail
    \/ PauseRatioFail
    \/ PauseReturn

Spec == Init /\ [][Next]_vars

\* the two functions called with and without an output_path
InitEffects ==
    /\ y \in Signals
    /\ sr = 1
    /\ silence_threshold \in 0..MaxThr
    /\ frame_length \in 1..MaxFrame
    /\ hop_length \in 1..MaxHop
    /\ output_path \in {"None", "stripped.wav"}
    /\ files_written = {}
    /\ DiarIdle
    /\ FeatIdle
    /\ WalkIdle
    /\ pc = "strip_silence"
    /\ i = 0
    /\ non_silent_frames = <<>>
    /\ start_idx = None
    /\ non_silent_audio = <<>>
    /\ spans = <<>>
    /\ strip_status = "pending"
    /\ stripped_audio = <<>>
    /\ silence = <<>>
    /\ start = NoneTime
    /\ pause_time = [kind |-> "float", val |-> Rat(0, 1)]
    /\ pause_status = "pending"
    /\ ratio = [special |-> "none", val |-> Rat(0, 1)]

SpecEffects == InitEffects /\ [][Next]_vars

\* ------------------------------------------- the two functions on defaults
\* Amplitudes in units of the default silence_threshold 0.02: 1.0 is 50 units.
TARGET_SR == 16000
DefaultFrameLength == 2048
DefaultHopLength == 512
UnitsPerOne == 50
HalfAmplitude == UnitsPerOne \div 2

\* one second at TARGET_SR: half a second at amplitude 0.5 and half a second
\* of zeros, in either order
LoudThenSilent == [k \in 1..TARGET_SR |->
                     IF k <= TARGET_SR \div 2 THEN HalfAmplitude ELSE 0]
SilentThenLoud == [k \in 1..TARGET_SR |->
                     IF k <= TARGET_SR \div 2 THEN 0 ELSE HalfAmplitude]

InitExample ==
    /\ y \in {LoudThenSilent, SilentThenLoud}
    /\ sr = TARGET_SR
    /\ silence_threshold = 1
    /\ frame_length = DefaultFrameLength
    /\ hop_length = DefaultHopLength
    /\ output_path = "None"
    /\ files_written = {}
    /\ DiarIdle
    /\ FeatIdle
    /\ WalkIdle
    /\ pc = "strip_silence"
    /\ i = 0
    /\ non_silent_frames = <<>>
    /\ start_idx = None
    /\ non_silent_audio = <<>>
    /\ spans = <<>>
    /\ strip_status = "pending"
    /\ stripped_audio = <<>>
    /\ silence = <<>>
    /\ start = NoneTime
    /\ pause_time = [kind |-> "float", val |-> Rat(0, 1)]
    /\ pause_status = "pending"
    /\ ratio = [special |-> "none", val |-> Rat(0, 1)]

NextExample ==
    \/ StripRms
    \/ StripRegionStart
    \/ StripRegionEnd
    \/ StripSameRegion
    \/ StripTail
    \/ StripReturn
    \/ PauseRms
    \/ PauseRegionStart
    \/ PauseRegionEnd
    \/ PauseSameRegion
    \/ PauseTail
    \/ PauseReturn

SpecExample == InitExample /\ [][NextExample]_vars

\* ======================================================== properties
\* frame k (0-based) has energy strictly above the threshold
FrameAbove(k) ==
    EnergyAbove(FrameEnergy(y, frame_length, hop_length, k),
                silence_threshold, frame_length)
\* frame k (0-based) has energy strictly below the threshold
FrameBelow(k) ==
    EnergyBelow(FrameEnergy(y, frame_length, hop_length, k),
                silence_threshold, frame_length)
FrameIdx == 0..(NumFrames(y, frame_length, hop_length) - 1)
Framed == ~RmsFails(y, frame_length)
AllFramesAbove == Framed /\ \A k \in FrameIdx : FrameAbove(k)
NoFrameAbove == Framed /\ \A k \in FrameIdx : ~FrameAbove(k)

StripFinished == pc \notin {"strip_silence", "strip_loop", "strip_concat"}
StripCut == pc \notin {"strip_silence", "strip_loop"}
PauseClassified == pc \in {"pause_loop", "pause_ratio", "done"} /\ Framed

\* the samples of sig from 0-based index k on whose frame (index \div hop)
\* satisfies Keep
RECURSIVE SamplesWhere(_, _)
SamplesWhere(Keep(_), k) ==
    IF k >= Len(y) THEN <<>>
    ELSE (IF Keep(k \div hop_length) THEN <<y[k + 1]>> ELSE <<>>)
         \o SamplesWhere(Keep, k + 1)

\* C1: when strip_silence returns, its result is exactly the samples lying
\* in active regions (boundary of frame i at sample i * hop_length), in the
\* original order, each once; the samples of silent regions are absent.
C1_StripIsActiveSpans ==
    strip_status = "returned" => stripped_audio = SamplesWhere(FrameAbove, 0)

C1_Witness ==
    /\ strip_status = "returned"
    /\ Len(spans) >= 2
    /\ Len(stripped_audio) < Len(y)
    /\ Len(stripped_audio) >= 2

\* C2: in strip_silence and in compute_total_pause_time a frame is active
\* iff its energy is strictly above the threshold and silent otherwise.
C2_SameStrictClassification ==
    (PauseClassified /\ Len(y) > 0) =>
        \A k \in FrameIdx :
            /\ non_silent_frames[k + 1] = FrameAbove(k)
            /\ silence[k + 1] = ~FrameAbove(k)

\* number of samples (0-based index from k on) whose frame is labelled
\* silent by compute_total_pause_time
RECURSIVE SilentSamples(_)
SilentSamples(k) ==
    IF k >= Len(y) THEN 0
    ELSE (IF silence[(k \div hop_length) + 1] THEN 1 ELSE 0)
         + SilentSamples(k + 1)

\* C3: compute_total_pause_time returns the summed duration of the silent
\* regions, a trailing one counted to the end of the signal, divided by
\* len(signal) / sample_rate.
C3_RatioIsSilentFraction ==
    (pause_status = "returned" /\ Len(y) > 0) =>
        /\ ratio.special = "finite"
        /\ RatEq(ratio.val, Rat(SilentSamples(0), Len(y)))

\* C4: on a non-empty signal whose frames are all silent,
\* compute_total_pause_time returns exactly 1.
C4_AllSilentIsOne ==
    (pause_status = "returned" /\ Len(y) > 0
        /\ \A k \in FrameIdx : silence[k + 1]) =>
        /\ ratio.special = "finite"
        /\ RatEq(ratio.val, Rat(1, 1))

\* C5: on a non-empty signal whose frames are all active,
\* compute_total_pause_time returns exactly 0.
C5_AllActiveIsZero ==
    (pc = "done" /\ Len(y) > 0 /\ AllFramesAbove) =>
        /\ pause_status = "returned"
        /\ ratio.special = "finite"
        /\ ratio.val.num = 0
        /\ ratio.val.den # 0

C5_Witness ==
    /\ pc = "done"
    /\ Len(y) >= 3
    /\ AllFramesAbove
    /\ pause_status = "returned"
    /\ Len(silence) >= 2

\* C6: on a signal whose frames are all active, strip_silence returns its
\* input sample for sample.
C6_AllActiveIsIdentity ==
    (StripFinished /\ AllFramesAbove) =>
        /\ strip_status = "returned"
        /\ stripped_audio = y

C6_Witness ==
    /\ StripFinished
    /\ AllFramesAbove
    /\ Len(y) >= 3
    /\ strip_status = "returned"
    /\ Len(non_silent_frames) >= 2

\* C7: when frames were classified and none is active, strip_silence does
\* not return: np.concatenate of zero spans raises.
C7_NoActiveRaises ==
    (StripFinished /\ NoFrameAbove) =>
        /\ strip_status = "ValueError"
        /\ non_silent_audio = <<>>
        /\ stripped_audio = <<>>

C7_Witness ==
    /\ StripFinished
    /\ NoFrameAbove
    /\ Len(y) >= 2
    /\ \E k \in 1..Len(y) : y[k] # 0
    /\ strip_status = "ValueError"

\* C8: when the last frame is active, the last span cut by strip_silence
\* runs to len(signal): every sample from the start of that region on is
\* in the output.
C8_TailRunsToEnd ==
    (StripCut /\ non_silent_frames # <<>>
        /\ non_silent_frames[Len(non_silent_frames)]) =>
        /\ spans # <<>>
        /\ spans[Len(spans)][2] = Len(y)
        /\ non_silent_audio[Len(non_silent_audio)]
             = SubSeq(y, spans[Len(spans)][1] + 1, Len(y))

C8_Witness ==
    /\ StripCut
    /\ non_silent_frames # <<>>
    /\ non_silent_frames[Len(non_silent_frames)]
    /\ Len(spans) >= 2
    /\ frames_to_samples(Len(non_silent_frames) - 1, hop_length) < Len(y)
    /\ spans[Len(spans)][1]
         < frames_to_samples(Len(non_silent_frames) - 1, hop_length)

\* frames at which a region starts: frame 0 and every frame whose label
\* differs from the previous frame's
RegionStartFrames ==
    {k \in 0..(Len(non_silent_frames) - 1) :
        k = 0 \/ non_silent_frames[k + 1] # non_silent_frames[k]}

\* the active spans are cut from the signal in increasing order, each
\* non-empty span separated from the next by a non-empty silent span
SpansAlternateAndTile ==
    /\ Len(non_silent_audio) = Len(spans)
    /\ \A k \in 1..Len(spans) :
        /\ 0 <= spans[k][1]
        /\ spans[k][1] <= spans[k][2]
        /\ spans[k][2] <= Len(y)
        /\ non_silent_audio[k] = SubSeq(y, spans[k][1] + 1, spans[k][2])
        /\ k < Len(spans) => /\ spans[k][1] < spans[k][2]
                             /\ spans[k][2] < spans[k + 1][1]

\* C9 as stated: the regions alternate, do not overlap, tile
\* [0, len(signal)) and every region start i * hop_length lies within the
\* signal.
C9_RegionStartsInsideSignal ==
    (StripCut /\ Len(y) > 0 /\ Framed) =>
        /\ SpansAlternateAndTile
        /\ \A k \in RegionStartFrames :
             frames_to_samples(k, hop_length) < Len(y)

\* C9 amended: the regions alternate, do not overlap and tile
\* [0, len(signal)); every region start i * hop_length is at most
\* len(signal), and a region starting at len(signal) is the last one and
\* is empty.
C9_RegionsTileSignal ==
    (StripCut /\ Framed) =>
        /\ SpansAlternateAndTile
        /\ \A k \in RegionStartFrames :
            /\ frames_to_samples(k, hop_length) <= Len(y)
            /\ frames_to_samples(k, hop_length) = Len(y)
                 => k = Len(non_silent_frames) - 1
        /\ \A k \in 1..Len(spans) :
             spans[k][1] = Len(y) => (k = Len(spans) /\ non_silent_audio[k] = <<>>)

C9_Witness ==
    /\ StripCut
    /\ Len(y) >= 2
    /\ Len(spans) >= 2
    /\ spans[Len(spans)][1] = Len(y)
    /\ strip_status = "pending"

\* C10: on an empty signal, once the frames are classified,
\* compute_total_pause_time fails with a division-by-zero error instead of
\* returning.
C10_EmptySignalRaises ==
    (pc = "done" /\ Len(y) = 0 /\ Framed) =>
        pause_status = "ZeroDivisionError"

\* ------------------------------------------------ diarization properties
\* the ticks [c, c+1) covered by a segment of timeline T
CellsOf(T) == {c \in 0..(MaxTick - 1) : \E seg \in T : seg[1] <= c /\ c < seg[2]}
\* total speaking time of label l, in ticks
SpeakingTicks(l) == Cardinality(CellsOf(label_timeline(diarization, l)))
LabelSet == {t[3] : t \in diarization}
\* start of the first segment of label l
FirstStart(l) ==
    CHOOSE a \in {t[1] : t \in {u \in diarization : u[3] = l}} :
        \A t \in diarization : t[3] = l => a <= t[1]
MainSelected == d_pc \in {"pause", "write_single", "keep", "cut", "done"}
MultipleSpeakers == Cardinality(LabelSet) > 1
LongestLabels == {l \in LabelSet : \A m \in LabelSet :
                     SpeakingTicks(m) <= SpeakingTicks(l)}

\* C11: with more than one speaker label, no label has a strictly greater
\* total duration than the selected main speaker.
C11_MainSpeakerIsLongest ==
    (MainSelected /\ MultipleSpeakers) =>
        /\ main_speaker \in LabelSet
        /\ \A l \in LabelSet : SpeakingTicks(l) <= SpeakingTicks(main_speaker)

C11_Witness ==
    /\ d_pc = "done"
    /\ MultipleSpeakers
    /\ main_speaker = 1
    /\ SpeakingTicks(0) > 0
    /\ SpeakingTicks(0) < SpeakingTicks(1)

\* C12 as stated: when several labels share the maximal total duration, the
\* main speaker is the tied label that appears first in the input.
C12_TieGoesToFirstAppearance ==
    (MainSelected /\ MultipleSpeakers /\ Cardinality(LongestLabels) > 1) =>
        \A l \in LongestLabels :
            (\A m \in LongestLabels \ {l} : FirstStart(l) < FirstStart(m))
                => main_speaker = l

\* C12 amended: when several labels share the maximal total duration, the
\* main speaker is the tied label that comes first in diarization.labels(),
\* which is sorted by label name, whichever label appears first in time.
C12_TieGoesToFirstSortedLabel ==
    (MainSelected /\ MultipleSpeakers /\ Cardinality(LongestLabels) > 1) =>
        /\ main_speaker \in LongestLabels
        /\ \A l \in LongestLabels : main_speaker <= l

C12_Witness ==
    /\ d_pc = "done"
    /\ MultipleSpeakers
    /\ Cardinality(LongestLabels) > 1
    /\ FirstStart(1) < FirstStart(0)
    /\ main_speaker = 0

\* sample k lies in a segment of a speaker other than the main speaker
InOtherSpeaker(k) ==
    \E t \in diarization :
        /\ t[3] # main_speaker
        /\ SampleOf(t[1], d_sr) <= k
        /\ k < SampleOf(t[2], d_sr)
Exported == exported[1]
SamplesOf(sig) == {sig[k] : k \in 1..Len(sig)}

\* C13: in the multi-speaker case every input sample that is not inside
\* another speaker's segment, audio before the first and after the last
\* diarized segment included, is in the exported audio.
C13_OnlyOtherSpeakersDropped ==
    (d_pc = "done" /\ MultipleSpeakers) =>
        \A k \in 0..(Len(audio) - 1) :
            ~InOtherSpeaker(k) => k \in SamplesOf(Exported)

\* ticks inside the extent of the annotation that no segment covers
GapTicks ==
    LET all == get_timeline(diarization)
        lo == CHOOSE a \in {seg[1] : seg \in all} : \A seg \in all : a <= seg[1]
        hi == CHOOSE b \in {seg[2] : seg \in all} : \A seg \in all : seg[2] <= b
    IN Cardinality({c \in lo..(hi - 1) : c \notin CellsOf(all)})
PauseRatioComputed == d_pc \in {"write_single", "keep", "cut", "done"}
                      /\ diarization # {}

\* C14: the diarization pause ratio is pauseDuration / speechDuration, with
\* pauseDuration the time no speaker talks (the gaps) and speechDuration the
\* time the main speaker talks, not the total duration.
C14_PauseRatioOverSpeech ==
    PauseRatioComputed =>
        /\ RatEq(pause_duration, Rat(GapTicks, TicksPerSecond))
        /\ RatEq(speaker_duration,
                 Rat(SpeakingTicks(main_speaker), TicksPerSecond))
        /\ speaker_duration.num > 0 /\ speaker_duration.den > 0
        /\ pause_ratio.den # 0
        /\ RatEq(pause_ratio, Rat(GapTicks, SpeakingTicks(main_speaker)))

C14_Witness ==
    /\ d_pc = "done"
    /\ MultipleSpeakers
    /\ GapTicks > 0
    /\ SpeakingTicks(main_speaker) + GapTicks < MaxTick
    /\ \E a, b \in label_timeline(diarization, main_speaker) :
          a # b /\ a[1] < b[2] /\ b[1] < a[2]

\* ------------------------------------------- properties on the defaults
Abs(x) == IF x >= 0 THEN x ELSE -x
\* the returned ratio in units of 1 / TARGET_SR (exact when RatioIsExact)
RatioIsExact ==
    /\ ratio.special = "finite"
    /\ ratio.val.den % TARGET_SR = 0
    /\ ratio.val.den \div TARGET_SR > 0
    /\ ratio.val.num % (ratio.val.den \div TARGET_SR) = 0
RatioUnits == ratio.val.num \div (ratio.val.den \div TARGET_SR)
ExampleDone ==
    /\ pc = "done"
    /\ y = LoudThenSilent
    /\ strip_status = "returned"
    /\ pause_status = "returned"

C16_ReturnsPauseSeconds ==
    (pause_status = "returned" /\ Len(y) > 0) =>
        /\ ratio.special = "finite"
        /\ RatEq(ratio.val, pause_time.val)

\* C17: an empty signal is rejected at the start of both calls: no frame is
\* classified and neither call returns.
C17_EmptySignalRejected ==
    Len(y) = 0 =>
        /\ non_silent_frames = <<>>
        /\ silence = <<>>
        /\ strip_status # "returned"
        /\ pause_status # "returned"

StripRunning == pc \in {"strip_silence", "strip_loop", "strip_concat"}

LoneSilentFrame(k) ==
    /\ k >= 1
    /\ k + 2 <= Len(non_silent_frames)
    /\ non_silent_frames[k]
    /\ ~non_silent_frames[k + 1]
    /\ non_silent_frames[k + 2]
OnlySilentFrame(k) ==
    \A j \in 1..Len(non_silent_frames) : j # k + 1 => non_silent_frames[j]

\* C19: a single silent frame i between two active frames ends a span at
\* i * hop_length and starts the next at (i + 1) * hop_length; when it is
\* the only silent frame, the output is the input without exactly those
\* hop_length samples.
C19_LoneSilentFrameCutsOneHop ==
    StripFinished =>
        \A k \in 0..(Len(non_silent_frames) - 1) :
            LoneSilentFrame(k) =>
                /\ \E j \in 1..(Len(spans) - 1) :
                      /\ spans[j][2] = k * hop_length
                      /\ spans[j + 1][1] = (k + 1) * hop_length
                /\ OnlySilentFrame(k) =>
                      /\ strip_status = "returned"
                      /\ stripped_audio =
                           SubSeq(y, 1, k * hop_length)
                             \o SubSeq(y, (k + 1) * hop_length + 1, Len(y))
                      /\ Len(stripped_audio) = Len(y) - hop_length

C19_Witness ==
    /\ StripFinished
    /\ strip_status = "returned"
    /\ hop_length = 2
    /\ \E k \in 0..(Len(non_silent_frames) - 1) :
          LoneSilentFrame(k) /\ OnlySilentFrame(k)
    /\ Len(stripped_audio) = Len(y) - hop_length

\* ------------------------------------------------ feature extraction loops
\* number of files in the training index
MaxFiles == 3
TrainIndex == 1..MaxFiles

\* pd.DataFrame(index=train_y.index, columns=...): every row starts as NaN
EmptyFrame == [uid \in TrainIndex |-> "NaN"]

FeatInit ==
    /\ f_pc = "train_gemaps"
    /\ f_i = 1
    /\ train_gemaps = EmptyFrame
    /\ train_compare = EmptyFrame
    /\ printed = <<>>
    /\ f_raised = FALSE

featOthers == <<segVars, diarVars, walkVars>>

\* the try body runs to its end: the row of uid is assigned
GemapsFill ==
    /\ f_pc = "train_gemaps"
    /\ f_i <= MaxFiles
    /\ train_gemaps' = [train_gemaps EXCEPT ![f_i] = "filled"]
    /\ f_i' = f_i + 1
    /\ UNCHANGED <<featOthers, f_pc, train_compare, printed, f_raised>>

\* variant of GemapsExcept: the exception leaves the loop
GemapsExceptAborts ==
    /\ f_pc = "train_gemaps"
    /\ f_i <= MaxFiles
    /\ f_raised' = TRUE
    /\ f_pc' = "done"
    /\ UNCHANGED <<featOthers, f_i, train_gemaps, train_compare, printed>>

\* load or process_signal raises: except Exception as e: print(e)
GemapsExcept ==
    /\ f_pc = "train_gemaps"
    /\ f_i <= MaxFiles
    /\ printed' = Append(printed, <<"train_gemaps", f_i>>)
    /\ f_i' = f_i + 1
    /\ UNCHANGED <<featOthers, f_pc, train_gemaps, train_compare, f_raised>>

\* the index is exhausted; the ComParE table is created
GemapsEnd ==
    /\ f_pc = "train_gemaps"
    /\ f_i > MaxFiles
    /\ f_pc' = "train_compare"
    /\ f_i' = 1
    /\ train_compare' = EmptyFrame
    /\ UNCHANGED <<featOthers, train_gemaps, printed, f_raised>>

CompareFill ==
    /\ f_pc = "train_compare"
    /\ f_i <= MaxFiles
    /\ train_compare' = [train_compare EXCEPT ![f_i] = "filled"]
    /\ f_i' = f_i + 1
    /\ UNCHANGED <<featOthers, f_pc, train_gemaps, printed, f_raised>>

CompareExcept ==
    /\ f_pc = "train_compare"
    /\ f_i <= MaxFiles
    /\ printed' = Append(printed, <<"train_compare", f_i>>)
    /\ f_i' = f_i + 1
    /\ UNCHANGED <<featOthers, f_pc, train_gemaps, train_compare, f_raised>>

CompareEnd ==
    /\ f_pc = "train_compare"
    /\ f_i > MaxFiles
    /\ f_pc' = "done"
    /\ UNCHANGED <<featOthers, f_i, train_gemaps, train_compare, printed,
                   f_raised>>

NextFeat ==
    \/ GemapsFill
    \/ GemapsExcept
    \/ GemapsEnd
    \/ CompareFill
    \/ CompareExcept
    \/ CompareEnd

InitFeat == SegIdle /\ DiarIdle /\ WalkIdle /\ FeatInit

SpecFeat == InitFeat /\ [][NextFeat]_vars

Printed(loop, uid) == \E n \in 1..Len(printed) : printed[n] = <<loop, uid>>

\* the files the loop has gone through so far
Visited(loop) ==
    IF f_pc = loop THEN 1..(f_i - 1)
    ELSE IF f_pc = "done" \/ (loop = "train_gemaps" /\ f_pc = "train_compare")
         THEN TrainIndex
         ELSE {}

\* C20: in both training loops a file whose processing raises has its
\* exception printed and its row left unfilled, no exception leaves the
\* loop, and when the loops are over every file of the index was either
\* filled or printed.
C20_TrainingLoopsSurviveFailures ==
    /\ ~f_raised
    /\ \A uid \in TrainIndex :
          /\ Printed("train_gemaps", uid) <=>
                (uid \in Visited("train_gemaps") /\ train_gemaps[uid] = "NaN")
          /\ Printed("train_compare", uid) <=>
                (uid \in Visited("train_compare") /\ train_compare[uid] = "NaN")
    /\ f_pc = "done" =>
          /\ Visited("train_gemaps") = TrainIndex
          /\ Visited("train_compare") = TrainIndex
          /\ f_i = MaxFiles + 1

C20_Witness ==
    /\ f_pc = "done"
    /\ train_gemaps[1] = "NaN"
    /\ Printed("train_gemaps", 1)
    /\ train_gemaps[MaxFiles] = "filled"
    /\ train_compare[MaxFiles - 1] = "NaN"
    /\ Printed("train_compare", MaxFiles - 1)
    /\ train_compare[MaxFiles] = "filled"

\* -------------------------------------------------- pause time, continued
PauseRunning == pc \in {"pause_loop", "pause_ratio"}

C22_StripAndPauseComplementary ==
    (strip_status = "returned" /\ pause_status = "returned" /\ Len(y) > 0) =>
        /\ ratio.special = "finite"
        /\ Len(stripped_audio) * ratio.val.den + ratio.val.num * Len(y)
             = Len(y) * ratio.val.den

\* ------------------------------------------------- diarization, continued
StrictlyIncreasing(sig) ==
    \A k \in 1..(Len(sig) - 1) : sig[k] < sig[k + 1]

C24_RemovedRatioStored ==
    (d_pc = "done" /\ MultipleSpeakers) =>
        /\ "uid" \in DOMAIN df_duration
        /\ RatEq(df_duration["uid"]["removed_ratio"], removed_ratio)

\* C25: a file whose statistics were computed and whose export was written,
\* with one speaker or with several, has a row in df_duration.
C25_ExportedFileHasRow ==
    (d_pc = "done" /\ exported # <<>>) =>
        /\ "uid" \in DOMAIN df_duration
        /\ DOMAIN df_duration["uid"] = DOMAIN duration_data

\* ------------------------------------------------------ paths and os.walk
\* A path is a sequence of characters.
MaxName == 4
Letters == {"w", "r", "a"}

RECURSIVE NamesOfLen(_)
NamesOfLen(n) ==
    IF n = 0 THEN {<<>>}
    ELSE {<<c>> \o t : c \in Letters, t \in NamesOfLen(n - 1)}
Names == UNION {NamesOfLen(n) : n \in 1..MaxName}

INPUT_FOLDER == <<"r", "a", "w">>
EXPORT_FOLDER == <<"r", "a", "w", "_", "p", "r", "e", "p", "r", "o", "c", "e", "s", "s", "e", "d">>
Mp3 == <<".", "m", "p", "3">>
Wav == <<".", "w", "a", "v">>
Txt == <<".", "t", "x", "t">>
TrainAudios == <<"t", "r", "a", "i", "n", "_", "a", "u", "d", "i", "o", "s">>
TrainAudiosSample == <<"t", "r", "a", "i", "n", "_", "a", "u", "d", "i", "o", "s", "_", "s", "a", "m", "p", "l", "e">>
Sep == <<"/">>

StartsWith(str, sub) ==
    /\ Len(sub) <= Len(str)
    /\ SubSeq(str, 1, Len(sub)) = sub

\* sub in str
Contains(str, sub) ==
    \E k \in 0..(Len(str) - Len(sub)) :
        SubSeq(str, k + 1, k + Len(sub)) = sub

\* str.replace(old, new): every non-overlapping occurrence, left to right
RECURSIVE Replace(_, _, _)
Replace(str, old, new) ==
    IF Len(str) < Len(old) THEN str
    ELSE IF StartsWith(str, old)
         THEN new \o Replace(SubSeq(str, Len(old) + 1, Len(str)), old, new)
         ELSE <<str[1]>> \o Replace(Tail(str), old, new)

\* os.path.join(root, filename)
join(root, filename) == root \o Sep \o filename

\* the files os.walk(INPUT_FOLDER) can yield
PrepRoots == {join(INPUT_FOLDER, TrainAudios),
              join(INPUT_FOLDER, TrainAudiosSample)}
PrepFiles == [root : PrepRoots, stem : Names, ext : {Mp3, Txt}]
filename(f) == f.stem \o f.ext

\* sf.write(path, ...): the file is created or overwritten
Written(fs, path) ==
    IF path \in DOMAIN fs
    THEN [fs EXCEPT ![path] = @ + 1]
    ELSE (path :> 1) @@ fs

\* ------------------------------------------------------ preprocessing loop
PrepInit ==
    /\ w_pc = "preprocess"
    /\ w_files \in {<<f>> : f \in PrepFiles}
    /\ w_i = 1
    /\ w_run = 1
    /\ w_fs = <<>>
    /\ w_loads = 0

walkOthers == <<segVars, diarVars, featVars>>

\* ".mp3" not in filename: continue
PrepSkipNotMp3 ==
    /\ w_pc = "preprocess"
    /\ w_i <= Len(w_files)
    /\ ~Contains(filename(w_files[w_i]), Mp3)
    /\ w_i' = w_i + 1
    /\ UNCHANGED <<walkOthers, w_pc, w_files, w_run, w_fs, w_loads>>

\* "train_audios_sample" in root: continue
PrepSkipSample ==
    /\ w_pc = "preprocess"
    /\ w_i <= Len(w_files)
    /\ Contains(filename(w_files[w_i]), Mp3)
    /\ Contains(w_files[w_i].root, TrainAudiosSample)
    /\ w_i' = w_i + 1
    /\ UNCHANGED <<walkOthers, w_pc, w_files, w_run, w_fs, w_loads>>

\* load, normalise, enhance, resample, trim, sf.write(export_path_file, ...)
PrepExport ==
    /\ w_pc = "preprocess"
    /\ w_i <= Len(w_files)
    /\ Contains(filename(w_files[w_i]), Mp3)
    /\ ~Contains(w_files[w_i].root, TrainAudiosSample)
    /\ LET input_path_file == join(w_files[w_i].root, filename(w_files[w_i]))
           export_path_file ==
               Replace(Replace(input_path_file, INPUT_FOLDER, EXPORT_FOLDER),
                       Mp3, Wav)
       IN w_fs' = Written(w_fs, export_path_file)
    /\ w_loads' = w_loads + 1
    /\ w_i' = w_i + 1
    /\ UNCHANGED <<walkOthers, w_pc, w_files, w_run>>

PrepEnd ==
    /\ w_pc = "preprocess"
    /\ w_i > Len(w_files)
    /\ w_pc' = "done"
    /\ UNCHANGED <<walkOthers, w_files, w_i, w_run, w_fs, w_loads>>

NextPrep ==
    \/ PrepSkipNotMp3
    \/ PrepSkipSample
    \/ PrepExport
    \/ PrepEnd

InitPrep == SegIdle /\ DiarIdle /\ FeatIdle /\ PrepInit

SpecPrep == InitPrep /\ [][NextPrep]_vars

\* the input path with the leading input folder replaced by the export
\* folder and the extension .mp3 by .wav
ExpectedExport(f) ==
    EXPORT_FOLDER
      \o SubSeq(f.root, Len(INPUT_FOLDER) + 1, Len(f.root))
      \o Sep \o f.stem \o Wav

PrepProcessed(f) == f.ext = Mp3 /\ ~Contains(f.root, TrainAudiosSample)

\* C27: every .mp3 file the preprocessing loop has processed was exported
\* under the export folder with its own sub-directory and base name and
\* the extension .wav, whatever its name.
C27_ExportPathKeepsName ==
    \A k \in 1..(w_i - 1) :
        (w_pc \in {"preprocess", "done"} /\ PrepProcessed(w_files[k])) =>
            DOMAIN w_fs = {ExpectedExport(w_files[k])}

\* ------------------------------------------- diarization loop over files
MaxWalk == 2

\* INPUT_FOLDER and EXPORT_FOLDER of the diarization cells
DIAR_INPUT_FOLDER == EXPORT_FOLDER
DIAR_EXPORT_FOLDER ==
    EXPORT_FOLDER \o <<"_", "d", "i", "a", "r", "i", "z", "e", "d">>

\* the files os.walk(INPUT_FOLDER) can yield, each with what the pipeline
\* finds in it: no speaker, one speaker or several
DiarRoots == {join(DIAR_INPUT_FOLDER, TrainAudios),
              join(DIAR_INPUT_FOLDER, TrainAudiosSample)}
DiarFiles == [root : DiarRoots, stem : NamesOfLen(1), ext : {Wav},
              found : {"none", "single", "multiple"}]

input_path(f) == join(f.root, filename(f))

\* input_path_file.replace(INPUT_FOLDER, EXPORT_FOLDER)
export_path(f) ==
    Replace(input_path(f), DIAR_INPUT_FOLDER, DIAR_EXPORT_FOLDER)

\* file lists without two files of the same path
Walks ==
    {w \in [1..MaxWalk -> DiarFiles] :
        \A a, b \in 1..MaxWalk :
            a # b => input_path(w[a]) # input_path(w[b])}

WalkInit ==
    /\ w_pc = "diarize"
    /\ w_files \in Walks
    /\ w_i = 1
    /\ w_run = 1
    /\ w_fs \in {[path \in S |-> 0] :
                   S \in SUBSET {export_path(w_files[k]) : k \in 1..MaxWalk}}
    /\ w_loads = 0

InSample(f) == Contains(f.root, TrainAudiosSample)

\* os.path.exists(export_path_file)
exists(f) == export_path(f) \in DOMAIN w_fs

\* "train_audios_sample" in root: continue
WalkSkipSample ==
    /\ w_pc = "diarize"
    /\ w_i <= Len(w_files)
    /\ InSample(w_files[w_i])
    /\ w_i' = w_i + 1
    /\ UNCHANGED <<walkOthers, w_pc, w_files, w_run, w_fs, w_loads>>

\* os.path.exists(export_path_file): continue
WalkSkipExisting ==
    /\ w_pc = "diarize"
    /\ w_i <= Len(w_files)
    /\ ~InSample(w_files[w_i])
    /\ exists(w_files[w_i])
    /\ w_i' = w_i + 1
    /\ UNCHANGED <<walkOthers, w_pc, w_files, w_run, w_fs, w_loads>>

\* load, diarize, len(speakers) == 0: continue
WalkNoSpeakers ==
    /\ w_pc = "diarize"
    /\ w_i <= Len(w_files)
    /\ ~InSample(w_files[w_i])
    /\ ~exists(w_files[w_i])
    /\ w_files[w_i].found = "none"
    /\ w_loads' = w_loads + 1
    /\ w_i' = w_i + 1
    /\ UNCHANGED <<walkOthers, w_pc, w_files, w_run, w_fs>>

\* variant of WalkExport: an existing export does not stop the iteration
WalkExportAlways ==
    /\ w_pc = "diarize"
    /\ w_i <= Len(w_files)
    /\ ~InSample(w_files[w_i])
    /\ w_files[w_i].found # "none"
    /\ w_loads' = w_loads + 1
    /\ w_fs' = Written(w_fs, export_path(w_files[w_i]))
    /\ w_i' = w_i + 1
    /\ UNCHANGED <<walkOthers, w_pc, w_files, w_run>>

\* load, diarize, sf.write(export_path_file, ...) with one speaker or several
WalkExport ==
    /\ w_pc = "diarize"
    /\ w_i <= Len(w_files)
    /\ ~InSample(w_files[w_i])
    /\ ~exists(w_files[w_i])
    /\ w_files[w_i].found # "none"
    /\ w_loads' = w_loads + 1
    /\ w_fs' = Written(w_fs, export_path(w_files[w_i]))
    /\ w_i' = w_i + 1
    /\ UNCHANGED <<walkOthers, w_pc, w_files, w_run>>

\* the walk is over; the cell is run a second time on the same folder
WalkAgain ==
    /\ w_pc = "diarize"
    /\ w_i > Len(w_files)
    /\ w_run = 1
    /\ w_run' = 2
    /\ w_i' = 1
    /\ w_loads' = 0
    /\ UNCHANGED <<walkOthers, w_pc, w_files, w_fs>>

WalkEnd ==
    /\ w_pc = "diarize"
    /\ w_i > Len(w_files)
    /\ w_run = 2
    /\ w_pc' = "done"
    /\ UNCHANGED <<walkOthers, w_files, w_i, w_run, w_fs, w_loads>>

NextWalk ==
    \/ WalkSkipSample
    \/ WalkSkipExisting
    \/ WalkNoSpeakers
    \/ WalkExport
    \/ WalkAgain
    \/ WalkEnd

InitWalk == SegIdle /\ DiarIdle /\ FeatIdle /\ WalkInit

SpecWalk == InitWalk /\ [][NextWalk]_vars

\* C26: no step of the diarization loop writes to an export path that
\* exists, a file is loaded only when its export path does not exist, and
\* the second run over the same folder writes no file at all.
C26_ExistingExportsNeverRewritten ==
    [][/\ \A path \in DOMAIN w_fs :
             path \in DOMAIN w_fs' /\ w_fs'[path] = w_fs[path]
       /\ (w_loads' = w_loads + 1) =>
             (w_i <= Len(w_files) /\ ~exists(w_files[w_i]))
       /\ (w_run = 2) => (w_fs' = w_fs)]_vars

C26_Witness ==
    /\ w_pc = "done"
    /\ w_run = 2
    /\ \E path \in DOMAIN w_fs : w_fs[path] = 0
    /\ \E path \in DOMAIN w_fs : w_fs[path] = 1
    /\ \E k \in 1..Len(w_files) :
          /\ exists(w_files[k])
          /\ w_fs[export_path(w_files[k])] = 1

====
